---- MODULE Spec2Model ----
(***************************************************************************)
(* Nonparametric survival estimators (src/nonparametric.py) and the        *)
(* evaluation metrics built on them (src/metrics.py).                      *)
(*                                                                         *)
(* Every function of the two files is a pure function of its arguments,    *)
(* except the two estimator classes, whose fit stores a step function that *)
(* predict_proba and predict_ipcw read.  The state is the estimator        *)
(* object, the last call made (its name and arguments) and what that call  *)
(* returned or raised.                                                     *)
(*                                                                         *)
(* Times and risk scores are drawn from a small integer grid.  Floating    *)
(* point results are exact fractions <<n, d>> in lowest terms; d = 0       *)
(* stands for the IEEE values nan (<<0,0>>), +inf (<<1,0>>) and -inf       *)
(* (<<-1,0>>) that numpy's division produces.                              *)
(***************************************************************************)
EXTENDS Integers, Sequences, FiniteSets, TLC

VARIABLES estimator, call, ret

vars == <<estimator, call, ret>>

(* ------------------------------ bounds -------------------------------- *)

\* samples per data set without entry times
MaxN == 3
\* samples per data set with entry times
MaxNTrunc == 2
\* times are 1..MaxTime
MaxTime == 3

Times == 1..MaxTime
\* samples per data set given to fit
MaxNFit == 3
\* query times per predict_proba call
MaxQuery == 2
\* samples per data set given to predict_ipcw
MaxNIpcw == 2
\* samples per data set given to concordance_index_censored
MaxNCI == 3
\* the metrics' times are 1..MaxTimeCI
MaxTimeCI == 2
\* risk estimates are 0..MaxEst
MaxEst == 1
\* largest risk estimate given to concordance_index_censored
MaxEstCI == 2
\* tied_tol is 0..MaxTol
MaxTol == 1
\* samples per training set of concordance_index_ipcw
MaxNTrain == 1
\* samples per training set of cumulative_dynamic_auc
MaxNTrainAuc == 2
\* samples per test set of concordance_index_ipcw
MaxNTest == 2
\* samples per test set of cumulative_dynamic_auc
MaxNAuc == 3
\* evaluation times per cumulative_dynamic_auc call
MaxEval == 2

(* --------------------------- small helpers ---------------------------- *)

Abs(x) == IF x < 0 THEN 0 - x ELSE x

Sgn(x) == IF x < 0 THEN 0 - 1 ELSE 1

Range(s) == {s[i] : i \in DOMAIN s}

\* the element of a one-element set.  Only({e : x \in {v}}) is e with the
\* value v computed once and named x, as the code computes a local
\* variable once and then reads it
Only(S) == CHOOSE x \in S : TRUE

SeqsUpTo(S, n) == UNION {[1..k -> S] : k \in 1..n}

\* numpy boolean-mask indexing a[mask]
RECURSIVE Compress(_, _)
Compress(mask, a) ==
    IF a = <<>> THEN <<>>
    ELSE (IF Head(mask) THEN <<Head(a)>> ELSE <<>>)
             \o Compress(Tail(mask), Tail(a))

\* a[order]
Take(a, order) == [k \in DOMAIN order |-> a[order[k]]]

(* ------------------------- float arithmetic --------------------------- *)

RECURSIVE GCD(_, _)
GCD(a, b) == IF b = 0 THEN a ELSE GCD(b, a % b)

Rat(n, d) ==
    IF d = 0 THEN <<(IF n = 0 THEN 0 ELSE Sgn(n)), 0>>
    ELSE Only({<<(Sgn(d) * n) \div g, Abs(d) \div g>> :
                  g \in {GCD(Abs(n), Abs(d))}})

NaN == <<0, 0>>

Inf == <<1, 0>>

F(n) == <<n, 1>>

IsNaN(a) == a = NaN

IsFinite(a) == a[2] # 0

\* the operands x, y of the binary operations are evaluated once, as a and b
FMul(x, y) ==
    Only({IF IsNaN(a) \/ IsNaN(b) THEN NaN
          ELSE Only({Rat(n, d) : n \in {a[1] * b[1]}, d \in {a[2] * b[2]}}) :
              a \in {x}, b \in {y}})

FDiv(x, y) ==
    Only({IF IsNaN(a) \/ IsNaN(b) THEN NaN
          ELSE Only({Rat(n, d) : n \in {a[1] * b[2] * Sgn(b[1])},
                                 d \in {a[2] * Abs(b[1])}}) :
              a \in {x}, b \in {y}})

FAdd(x, y) ==
    Only({IF IsNaN(a) \/ IsNaN(b) THEN NaN
          ELSE IF a[2] = 0 /\ b[2] = 0 THEN (IF a = b THEN a ELSE NaN)
          ELSE IF a[2] = 0 THEN a
          ELSE IF b[2] = 0 THEN b
          ELSE Only({Rat(n, d) : n \in {a[1] * b[2] + b[1] * a[2]},
                                 d \in {a[2] * b[2]}}) :
              a \in {x}, b \in {y}})

FNeg(x) == Only({<<0 - a[1], a[2]>> : a \in {x}})

FSub(a, b) == FAdd(a, FNeg(b))

\* IEEE comparisons: every comparison with nan is false
FLt(x, y) ==
    \E a \in {x}, b \in {y} :
        /\ ~IsNaN(a)
        /\ ~IsNaN(b)
        /\ a # b
        /\ IF a[2] = 0 THEN a[1] < 0
           ELSE IF b[2] = 0 THEN b[1] > 0
           ELSE a[1] * b[2] < b[1] * a[2]

FEq(x, y) == \E a \in {x}, b \in {y} : ~IsNaN(a) /\ ~IsNaN(b) /\ a = b

FLe(x, y) == \E a \in {x}, b \in {y} : FLt(a, b) \/ FEq(a, b)

\* numpy.cumprod
RECURSIVE CumProd(_)
CumProd(v) ==
    IF Len(v) <= 1 THEN v
    ELSE Only({Append(p, FMul(p[Len(p)], v[Len(v)])) :
                  p \in {CumProd(SubSeq(v, 1, Len(v) - 1))}})

\* numpy.cumsum on floats
RECURSIVE CumSumF(_)
CumSumF(v) ==
    IF Len(v) <= 1 THEN v
    ELSE Only({Append(p, FAdd(p[Len(p)], v[Len(v)])) :
                  p \in {CumSumF(SubSeq(v, 1, Len(v) - 1))}})

\* numpy.cumsum on integers
RECURSIVE CumSum(_)
CumSum(v) ==
    IF Len(v) <= 1 THEN v
    ELSE Only({Append(p, p[Len(p)] + v[Len(v)]) :
                  p \in {CumSum(SubSeq(v, 1, Len(v) - 1))}})

(* ------------------------------ sorting ------------------------------- *)

\* numpy.argsort(kind="mergesort"): the stable ascending order of indices
RECURSIVE InsertIdx(_, _, _)
InsertIdx(order, a, i) ==
    IF order = <<>> THEN <<i>>
    ELSE IF a[Head(order)] <= a[i]
         THEN <<Head(order)>> \o InsertIdx(Tail(order), a, i)
         ELSE <<i>> \o order

RECURSIVE ArgSortUpTo(_, _)
ArgSortUpTo(a, k) ==
    IF k = 0 THEN <<>>
    ELSE Only({InsertIdx(order, a, k) : order \in {ArgSortUpTo(a, k - 1)}})

ArgSort(a) == ArgSortUpTo(a, Len(a))

\* numpy.unique: the distinct values in ascending order
RECURSIVE SortSet(_)
SortSet(S) ==
    IF S = {} THEN <<>>
    ELSE Only({<<m>> \o SortSet(S \ {m}) :
                  m \in {CHOOSE x \in S : \A z \in S : x <= z}})

Unique(a) == Only({SortSet(S) : S \in {Range(a)}})

\* numpy.searchsorted(a, v, side="left") as a 0-based index:
\* the number of entries of the sorted a that are < v
SearchSortedLeft(a, v) == Cardinality({k \in DOMAIN a : a[k] < v})

\* numpy.searchsorted(a, v, side="right"): the number of entries <= v
SearchSortedRight(a, v) == Cardinality({k \in DOMAIN a : a[k] <= v})

(* --------------------------- _compute_counts -------------------------- *)

\* the inner while loop: the first position >= i whose time differs from
\* prev_val (n_samples + 1 when there is none)
RECURSIVE GroupEnd(_, _, _, _)
GroupEnd(time, order, i, prev_val) ==
    IF i <= Len(order) /\ prev_val = time[order[i]]
    THEN GroupEnd(time, order, i + 1, prev_val)
    ELSE i

\* CountGroups without the test of the event indicator
RECURSIVE CountGroupsAnyEvent(_, _, _, _)
CountGroupsAnyEvent(event, time, order, i) ==
    Only({LET row == <<time[order[i]], e - i, e - i>>
          IN  IF e = Len(order) + 1 THEN <<row>>
              ELSE <<row>> \o CountGroupsAnyEvent(event, time, order, e) :
              e \in {GroupEnd(time, order, i, time[order[i]])}})

\* the outer while loop from position i: one <<time, events, count>> row
\* per group of equal times
RECURSIVE CountGroups(_, _, _, _)
CountGroups(event, time, order, i) ==
    Only({LET count_event == Cardinality({k \in i..(e - 1) : event[order[k]]})
              row == <<time[order[i]], count_event, e - i>>
          IN  IF e = Len(order) + 1 THEN <<row>>
              ELSE <<row>> \o CountGroups(event, time, order, e) :
              e \in {GroupEnd(time, order, i, time[order[i]])}})

\* the three returned arrays, from the rows of the loop and the cumulative
\* sum of the counts offset by one
CountsOfRows(n_samples, rows, cum) ==
    [times     |-> [k \in DOMAIN rows |-> rows[k][1]],
     n_events  |-> [k \in DOMAIN rows |-> rows[k][2]],
     n_at_risk |-> [k \in DOMAIN rows |-> n_samples - cum[k]]]

ComputeCounts(event, time) ==
    Only({Only({CountsOfRows(Len(event), rows, cum) :
                   cum \in {CumSum(<<0>> \o [k \in DOMAIN rows |-> rows[k][3]])}}) :
             rows \in {Only({CountGroups(event, time, order, 1) :
                               order \in {ArgSort(time)}})}})

(* ---------------------- _compute_counts_truncated --------------------- *)

\* AdvanceEnter with < for <=: a sample entering at ti is left out
RECURSIVE AdvanceEnterStrict(_, _, _)
AdvanceEnterStrict(s_time_enter, idx_enter, ti) ==
    IF idx_enter < Len(s_time_enter) /\ s_time_enter[idx_enter + 1] < ti
    THEN AdvanceEnterStrict(s_time_enter, idx_enter + 1, ti)
    ELSE idx_enter

\* the first while loop of the sweep: advance idx_enter (0-based count)
RECURSIVE AdvanceEnter(_, _, _)
AdvanceEnter(s_time_enter, idx_enter, ti) ==
    IF idx_enter < Len(s_time_enter) /\ s_time_enter[idx_enter + 1] <= ti
    THEN AdvanceEnter(s_time_enter, idx_enter + 1, ti)
    ELSE idx_enter

\* the second while loop of the sweep: advance idx_exit
RECURSIVE AdvanceExit(_, _, _)
AdvanceExit(s_time_exit, idx_exit, ti) ==
    IF idx_exit < Len(s_time_exit) /\ s_time_exit[idx_exit + 1] < ti
    THEN AdvanceExit(s_time_exit, idx_exit + 1, ti)
    ELSE idx_exit

\* the third while loop: events among the exits equal to ti, from k
RECURSIVE CountEventsAt(_, _, _, _, _)
CountEventsAt(event, order_exit, s_time_exit, k, ti) ==
    IF k < Len(s_time_exit) /\ s_time_exit[k + 1] = ti
    THEN (IF event[order_exit[k + 1]] THEN 1 ELSE 0)
             + CountEventsAt(event, order_exit, s_time_exit, k + 1, ti)
    ELSE 0

\* numpy.setdiff1d(a, b, assume_unique=True): its length is all the caller uses
SetDiff1d(a, b) == Range(a) \ Range(b)

\* the for loop from i (1-based position in uniq_times) with the running
\* idx_enter and idx_exit: one <<events, total>> row per unique time
RECURSIVE SweepTruncated(_, _, _, _)
SweepTruncated(c, i, idx_enter0, idx_exit0) ==
    IF i > Len(c.uniq_times) THEN <<>>
    ELSE Only({
           LET risk_set == SetDiff1d(SubSeq(c.order_enter, 1, idx_enter),
                                     SubSeq(c.order_exit, 1, idx_exit))
               count_event == CountEventsAt(c.event, c.order_exit,
                                            c.s_time_exit, idx_exit, c.uniq_times[i])
           IN  <<<<count_event, Cardinality(risk_set)>>>>
                   \o SweepTruncated(c, i + 1, idx_enter, idx_exit) :
               idx_enter \in {AdvanceEnter(c.s_time_enter, idx_enter0, c.uniq_times[i])},
               idx_exit \in {AdvanceExit(c.s_time_exit, idx_exit0, c.uniq_times[i])}})

\* the counts at uniq_times[0]
FirstRowTruncated(c) ==
    LET t0 == c.uniq_times[1]
        idx_enter == SearchSortedRight(c.s_time_enter, t0)
    IN  <<0, idx_enter>>

\* the counts at t0 and the sweep over the later unique times, given the
\* sorted arrays c
TruncatedCounts(c0) ==
    Only({Only({[status    |-> "ok",
                 times     |-> c.uniq_times,
                 n_events  |-> [k \in DOMAIN rows |-> rows[k][1]],
                 n_at_risk |-> [k \in DOMAIN rows |-> rows[k][2]]] :
                   rows \in {<<FirstRowTruncated(c)>>
                              \o SweepTruncated(c, 2,
                                     SearchSortedRight(c.s_time_enter, c.uniq_times[1]),
                                     SearchSortedLeft(c.s_time_exit, c.uniq_times[1]))}}) :
             c \in {c0}})

ComputeCountsTruncated(event, time_enter, time_exit) ==
    IF \E k \in DOMAIN event : time_enter[k] > time_exit[k]
    THEN [status |-> "ValueError"]
    ELSE Only({TruncatedCounts(
                   [event        |-> event,
                    uniq_times   |-> SortSet(Range(time_enter) \cup Range(time_exit)),
                    order_enter  |-> order_enter,
                    order_exit   |-> order_exit,
                    s_time_enter |-> Take(time_enter, order_enter),
                    s_time_exit  |-> Take(time_exit, order_exit)]) :
                  order_enter \in {ArgSort(time_enter)},
                  order_exit \in {ArgSort(time_exit)}})

(* ------------------------ step-function estimators ------------------- *)

\* an absent optional argument, and a given one
None == <<>>

Some(x) == <<x>>

\* util.check_y_survival: the event indicator must hold an event unless
\* allow_all_censored is set
CheckYSurvival(event, allow_all_censored) ==
    IF ~allow_all_censored /\ \A k \in DOMAIN event : ~event[k]
    THEN "ValueError" ELSE "ok"

\* KMValues with the operands of the division swapped
KMValuesSwapped(n_events, n_at_risk) ==
    [k \in DOMAIN n_events |->
        FSub(F(1), FDiv(F(n_at_risk[k]), F(n_events[k])))]

\* values = 1 - n_events / n_at_risk
KMValues(n_events, n_at_risk) ==
    [k \in DOMAIN n_events |->
        FSub(F(1), FDiv(F(n_events[k]), F(n_at_risk[k])))]

\* KMMask with > for >=
KMMaskStrict(uniq_times, time_min) ==
    [k \in DOMAIN uniq_times |-> uniq_times[k] > time_min]

\* mask = uniq_times >= time_min
KMMask(uniq_times, time_min) ==
    [k \in DOMAIN uniq_times |-> uniq_times[k] >= time_min]

\* kaplan_meier_estimator from the risk-set table on
KMOfCounts(uniq_times, values, time_min) ==
    IF time_min = None
    THEN [status |-> "ok", time |-> uniq_times, prob |-> CumProd(values)]
    ELSE Only({[status |-> "ok",
                time   |-> Compress(mask, uniq_times),
                prob   |-> Only({CumProd(v) : v \in {Compress(mask, values)}})] :
                  mask \in {KMMask(uniq_times, time_min[1])}})

KaplanMeierEstimator(event, time_exit, time_enter, time_min) ==
    Only({IF CheckYSurvival(event, TRUE) # "ok" \/ counts.status # "ok"
          THEN [status |-> "ValueError"]
          ELSE Only({KMOfCounts(counts.times, values, time_min) :
                        values \in {KMValues(counts.n_events, counts.n_at_risk)}}) :
              counts \in {IF time_enter = None
                          THEN [status |-> "ok"] @@ ComputeCounts(event, time_exit)
                          ELSE ComputeCountsTruncated(event, time_enter, time_exit)}})

NelsonAalenEstimator(event, time) ==
    IF CheckYSurvival(event, FALSE) # "ok" THEN [status |-> "ValueError"]
    ELSE Only({[status     |-> "ok",
                time       |-> counts.times,
                cum_hazard |-> Only({CumSumF(v) : v \in {
                                   [k \in DOMAIN counts.times |->
                                       FDiv(F(counts.n_events[k]),
                                            F(counts.n_at_risk[k]))]}})] :
                  counts \in {ComputeCounts(event, time)}})

(* ------------- SurvivalFunctionEstimator and its subclass ------------- *)

\* -numpy.infty
NegInf == FNeg(Inf)

\* numpy.finfo(float).eps is 2^-52; on the integer time grid every positive
\* value below the grid spacing compares the same way
Eps == Rat(1, 1024)

FAbs(x) == Only({<<Abs(a[1]), a[2]>> : a \in {x}})

Floats(a) == [k \in DOMAIN a |-> F(a[k])]

Ones(n) == [k \in 1..n |-> F(1)]

\* a[i] for a 0-based Python index i; a negative index counts from the end
PyIndex(a, i) == IF i < 0 THEN a[Len(a) + i + 1] ELSE a[i + 1]

\* searchsorted(side="left") over stored float times, 0-based
SearchSortedLeftF(a, v) == Cardinality({k \in DOMAIN a : FLt(a[k], v)})

\* SurvivalFunctionEstimator.fit
FitSurvival(event, time) ==
    IF CheckYSurvival(event, TRUE) # "ok" THEN [status |-> "ValueError"]
    ELSE Only({[status       |-> "ok",
                unique_time_ |-> <<NegInf>> \o Floats(km.time),
                prob_        |-> <<F(1)>> \o km.prob] :
                  km \in {KaplanMeierEstimator(event, time, None, None)}})

\* CensoringDistributionEstimator.fit
FitCensoring(event, time) ==
    IF CheckYSurvival(event, FALSE) # "ok" THEN [status |-> "ValueError"]
    ELSE IF \A k \in DOMAIN event : event[k]
    THEN Only({[status       |-> "ok",
                unique_time_ |-> Floats(unique_time),
                prob_        |-> Ones(Len(unique_time))] :
                  unique_time \in {Unique(time)}})
    ELSE Only({[status       |-> "ok",
                unique_time_ |-> <<NegInf>> \o Floats(km.time),
                prob_        |-> <<F(1)>> \o km.prob] :
                  km \in {Only({KaplanMeierEstimator(censored, time, None, None) :
                                  censored \in {[k \in DOMAIN event |-> ~event[k]]}})}})

\* the attributes fit stores on the object
Fitted(cls, fit) ==
    [cls |-> cls, fitted |-> TRUE,
     unique_time_ |-> fit.unique_time_, prob_ |-> fit.prob_]

\* extends = time > self.unique_time_[-1], with >= for >
ExtendsInclusive(e, t) == FLe(e.unique_time_[Len(e.unique_time_)], F(t))

\* extends = time > self.unique_time_[-1]
Extends(e, t) == FLt(e.unique_time_[Len(e.unique_time_)], F(t))

\* StepIndex without the shift to the left of a non-exact match
StepIndexNoShift(e, t) == SearchSortedLeftF(e.unique_time_, F(t))

\* the 0-based index into prob_ for a query time that does not extend
StepIndex(e, t) ==
    Only({LET exact == FLt(FAbs(FSub(PyIndex(e.unique_time_, idx), F(t))), Eps)
          IN  IF exact THEN idx ELSE idx - 1 :
              idx \in {SearchSortedLeftF(e.unique_time_, F(t))}})

\* SurvivalFunctionEstimator.predict_proba on a fitted estimator
PredictProba(e, time) ==
    IF ~e.fitted THEN [status |-> "NotFittedError"]
    ELSE IF /\ FLt(F(0), e.prob_[Len(e.prob_)])
            /\ \E k \in DOMAIN time : Extends(e, time[k])
    THEN [status |-> "ValueError"]
    ELSE [status |-> "ok",
          prob   |-> [k \in DOMAIN time |->
                         IF Extends(e, time[k]) THEN F(0)
                         ELSE PyIndex(e.prob_, StepIndex(e, time[k]))]]

\* PredictIpcw without the test for a zero probability
PredictIpcwNoZeroTest(e, event, time) ==
    IF CheckYSurvival(event, FALSE) # "ok" THEN [status |-> "ValueError"]
    ELSE Only({IF Ghat.status # "ok" THEN [status |-> Ghat.status]
               ELSE [status  |-> "ok",
                     weights |-> [k \in DOMAIN event |->
                         IF event[k]
                         THEN FDiv(F(1), Ghat.prob[
                                  Cardinality({i \in 1..k : event[i]})])
                         ELSE F(0)]] :
                  Ghat \in {Only({PredictProba(e, event_time) :
                                   event_time \in {Compress(event, time)}})}})

\* CensoringDistributionEstimator.predict_ipcw
PredictIpcw(e, event, time) ==
    IF CheckYSurvival(event, FALSE) # "ok" THEN [status |-> "ValueError"]
    ELSE Only({IF Ghat.status # "ok" THEN [status |-> Ghat.status]
               ELSE IF \E k \in DOMAIN Ghat.prob : FEq(Ghat.prob[k], F(0))
               THEN [status |-> "ValueError"]
               ELSE [status  |-> "ok",
                     weights |-> [k \in DOMAIN event |->
                         IF event[k]
                         THEN FDiv(F(1), Ghat.prob[
                                  Cardinality({i \in 1..k : event[i]})])
                         ELSE F(0)]] :
                  Ghat \in {Only({PredictProba(e, event_time) :
                                   event_time \in {Compress(event, time)}})}})

(* -------------------------- concordance index ------------------------- *)

\* numpy.argsort with the default kind (quicksort) is not stable: any
\* order of the indices that sorts a ascending can come out
SortingOrders(a) ==
    {p \in Permutations(DOMAIN a) :
        \A k \in 1..(Len(a) - 1) : a[p[k]] <= a[p[k + 1]]}

\* TieEnd without the loop: no sample is tied in time with the next one
TieEndNoTies(event_time, order, e, time_i) == e

\* the inner while loop of _get_comparable: the first position from e
\* whose time differs from time_i
RECURSIVE TieEnd(_, _, _, _)
TieEnd(event_time, order, e, time_i) ==
    IF e <= Len(order) /\ event_time[order[e]] = time_i
    THEN TieEnd(event_time, order, e + 1, time_i)
    ELSE e

\* the outer while loop of _get_comparable from sorted position i:
\* comparable as <<position, mask>> pairs in insertion order, and tied_time
RECURSIVE GetComparableFrom(_, _, _, _)
GetComparableFrom(event_indicator, event_time, order, i) ==
    IF i >= Len(order) THEN [comparable |-> <<>>, tied_time |-> 0]
    ELSE LET end == TieEnd(event_time, order, i + 1, event_time[order[i]])
             censored_at_same_time ==
                 {k \in i..(end - 1) : ~event_indicator[order[k]]}
             mask == [k \in DOMAIN order |->
                         k >= end \/ k \in censored_at_same_time]
             events == SortSet({j \in i..(end - 1) : event_indicator[order[j]]})
             rest == GetComparableFrom(event_indicator, event_time, order, end)
         IN  [comparable |-> [k \in DOMAIN events |-> <<events[k], mask>>]
                                 \o rest.comparable,
              tied_time  |-> Len(events) * Cardinality(censored_at_same_time)
                                 + rest.tied_time]

GetComparable(event_indicator, event_time, order) ==
    GetComparableFrom(event_indicator, event_time, order, 1)

\* the body of the for loop of _estimate_concordance_index for one entry
PairCounts(estimate, weights, tied_tol, order, ind, mask) ==
    LET est_i == estimate[order[ind]]
        w_i == weights[order[ind]]
        est == Compress(mask, Take(estimate, order))
        ties == {k \in DOMAIN est : Abs(est[k] - est_i) <= tied_tol}
        n_ties == Cardinality(ties)
        n_con == Cardinality({k \in DOMAIN est \ ties : est[k] < est_i})
    IN  [numerator   |-> FAdd(FMul(w_i, F(n_con)),
                              FMul(Rat(1, 2), FMul(w_i, F(n_ties)))),
         denominator |-> FMul(w_i, F(Len(est))),
         tied_risk   |-> n_ties,
         concordant  |-> n_con,
         discordant  |-> Len(est) - n_con - n_ties]

RECURSIVE SumF(_)
SumF(v) == IF v = <<>> THEN F(0) ELSE FAdd(Head(v), SumF(Tail(v)))

RECURSIVE Sum(_)
Sum(v) == IF v = <<>> THEN 0 ELSE Head(v) + Sum(Tail(v))

\* _estimate_concordance_index, for the order argsort returned.  With no
\* entry in comparable both accumulators are still Python floats and the
\* division raises; otherwise they are numpy floats and 0/0 gives nan
EstimateConcordanceIndex(event_indicator, event_time, estimate, weights, tied_tol, order) ==
    LET gc == GetComparable(event_indicator, event_time, order)
        rows == [r \in DOMAIN gc.comparable |->
                    PairCounts(estimate, weights, tied_tol, order,
                               gc.comparable[r][1], gc.comparable[r][2])]
        numerator == SumF([r \in DOMAIN rows |-> rows[r].numerator])
        denominator == SumF([r \in DOMAIN rows |-> rows[r].denominator])
    IN  IF gc.comparable = <<>> THEN [status |-> "ZeroDivisionError"]
        ELSE [status     |-> "ok",
              cindex     |-> FDiv(numerator, denominator),
              concordant |-> Sum([r \in DOMAIN rows |-> rows[r].concordant]),
              discordant |-> Sum([r \in DOMAIN rows |-> rows[r].discordant]),
              tied_risk  |-> Sum([r \in DOMAIN rows |-> rows[r].tied_risk]),
              tied_time  |-> gc.tied_time]

\* _check_inputs, for arrays of one length and a boolean indicator
CheckInputs(event_indicator, event_time, estimate) ==
    IF Len(event_time) < 2 THEN "ValueError"
    ELSE IF \A k \in DOMAIN event_indicator : ~event_indicator[k]
    THEN "ValueError"
    ELSE "ok"

ConcordanceIndexCensored(event_indicator, event_time, estimate, tied_tol, order) ==
    IF CheckInputs(event_indicator, event_time, estimate) # "ok"
    THEN [status |-> "ValueError"]
    ELSE EstimateConcordanceIndex(event_indicator, event_time, estimate,
                                  Ones(Len(estimate)), tied_tol, order)

\* the weights of concordance_index_ipcw: predict_ipcw on the test samples
\* before tau, zero for the others
IpcwWeights(cens, test_event, test_time, tau) ==
    IF tau = None THEN PredictIpcw(cens, test_event, test_time)
    ELSE LET mask == [k \in DOMAIN test_time |-> test_time[k] < tau[1]]
             ipcw_test == PredictIpcw(cens, Compress(mask, test_event),
                                      Compress(mask, test_time))
         IN  IF ipcw_test.status # "ok" THEN ipcw_test
             ELSE [status  |-> "ok",
                   weights |-> [k \in DOMAIN test_time |->
                       IF mask[k]
                       THEN ipcw_test.weights[
                                Cardinality({i \in 1..k : mask[i]})]
                       ELSE F(0)]]

\* concordance_index_ipcw once cens.fit(survival_train) has returned fit
ConcordanceIndexIpcw(fit, test_event, test_time, estimate, tau, tied_tol, order) ==
    IF CheckYSurvival(test_event, FALSE) # "ok" \/ fit.status # "ok"
    THEN [status |-> "ValueError"]
    ELSE LET cens == Fitted("CensoringDistributionEstimator", fit)
             ipcw == IpcwWeights(cens, test_event, test_time, tau)
         IN  IF ipcw.status # "ok" THEN [status |-> ipcw.status]
             ELSE EstimateConcordanceIndex(test_event, test_time, estimate,
                      [k \in DOMAIN ipcw.weights |->
                          FMul(ipcw.weights[k], ipcw.weights[k])],
                      tied_tol, order)

(* ----------------------- cumulative/dynamic AUC ----------------------- *)

\* the scan of the samples (already in descending order of estimate) from
\* sample i on: the ROC vertices <<tp_value, fp_value>> appended when the
\* estimate moves by more than tied_tol, and the last vertex.  est_prev is
\* <<>> while it is still numpy.infty
RECURSIVE RocScan(_, _, _, _, _, _, _, _, _)
RocScan(estimate, ipcw, is_case, is_control, tied_tol, i, tp_value, fp_value, est_prev) ==
    IF i > Len(estimate) THEN << <<tp_value, fp_value>> >>
    ELSE LET est_i == estimate[i]
             moved == est_prev = None \/ Abs(est_i - est_prev[1]) > tied_tol
             tp == IF is_case[i] THEN FAdd(tp_value, ipcw[i]) ELSE tp_value
             fp == IF ~is_case[i] /\ is_control[i] THEN fp_value + 1 ELSE fp_value
         IN  (IF moved THEN << <<tp_value, fp_value>> >> ELSE <<>>)
                 \o RocScan(estimate, ipcw, is_case, is_control, tied_tol, i + 1,
                            tp, fp, IF moved THEN Some(est_i) ELSE est_prev)

\* Trapz with the right end of each interval for the mean of its two ends
RECURSIVE TrapzRight(_, _)
TrapzRight(y, x) ==
    IF Len(y) <= 1 THEN F(0)
    ELSE FAdd(FMul(FSub(x[2], x[1]), y[2]), TrapzRight(Tail(y), Tail(x)))

\* scipy.integrate.trapz(y, x)
RECURSIVE Trapz(_, _)
Trapz(y, x) ==
    IF Len(y) <= 1 THEN F(0)
    ELSE FAdd(FMul(FSub(x[2], x[1]), FDiv(FAdd(y[2], y[1]), F(2))),
              Trapz(Tail(y), Tail(x)))

\* the body of the loop over the evaluation times: scores[k] for time t
AucAt(test_event, test_time, estimate, ipcw, tied_tol, t) ==
    LET is_case == [i \in DOMAIN test_time |-> test_time[i] <= t /\ test_event[i]]
        is_control == [i \in DOMAIN test_time |-> test_time[i] > t]
        n_controls == Cardinality({i \in DOMAIN test_time : is_control[i]})
        roc == RocScan(estimate, ipcw, is_case, is_control, tied_tol, 1,
                       F(0), 0, None)
        case_weight == SumF(Compress(is_case, ipcw))
        sens == [k \in DOMAIN roc |-> FDiv(roc[k][1], case_weight)]
        fpr == [k \in DOMAIN roc |-> FDiv(F(roc[k][2]), F(n_controls))]
    IN  Trapz(sens, fpr)

\* the summary measure over the evaluation times
MeanAuc(test_event, test_time, times, scores) ==
    IF Len(times) = 1 THEN scores[1]
    ELSE LET surv == Fitted("SurvivalFunctionEstimator",
                            FitSurvival(test_event, test_time))
             s_times == PredictProba(surv, times).prob
             d == [k \in DOMAIN times |->
                      FSub(IF k = 1 THEN F(1) ELSE s_times[k - 1], s_times[k])]
             integral == SumF([k \in DOMAIN times |-> FMul(scores[k], d[k])])
         IN  FDiv(integral, FSub(F(1), s_times[Len(s_times)]))

Max(S) == CHOOSE x \in S : \A z \in S : z <= x

Min(S) == CHOOSE x \in S : \A z \in S : x <= z

\* AucCheckTimes with > for >=: the largest test time passes
AucCheckTimesStrict(test_event, test_time, times0) ==
    LET times == Unique(times0)
    IN  IF CheckYSurvival(test_event, FALSE) # "ok" THEN "ValueError"
        ELSE IF \/ Max(Range(times)) > Max(Range(test_time))
                \/ Min(Range(times)) < Min(Range(test_time))
        THEN "ValueError"
        ELSE "ok"

\* the checks cumulative_dynamic_auc makes before it fits cens
AucCheckTimes(test_event, test_time, times0) ==
    LET times == Unique(times0)
    IN  IF CheckYSurvival(test_event, FALSE) # "ok" THEN "ValueError"
        ELSE IF \/ Max(Range(times)) >= Max(Range(test_time))
                \/ Min(Range(times)) < Min(Range(test_time))
        THEN "ValueError"
        ELSE "ok"

\* cumulative_dynamic_auc once cens.fit(survival_train) would return fit;
\* o is the order numpy.argsort(-estimate) returned
CumulativeDynamicAuc(fit, test_event0, test_time0, estimate0, times0, tied_tol, o) ==
    LET times == Unique(times0)
    IN  IF AucCheckTimes(test_event0, test_time0, times0) # "ok"
        THEN [status |-> "ValueError"]
        ELSE IF fit.status # "ok" THEN [status |-> "ValueError"]
        ELSE LET test_time == Take(test_time0, o)
                 test_event == Take(test_event0, o)
                 estimate == Take(estimate0, o)
                 cens == Fitted("CensoringDistributionEstimator", fit)
                 ipcw == PredictIpcw(cens, test_event, test_time)
             IN  IF ipcw.status # "ok" THEN [status |-> ipcw.status]
                 ELSE LET scores == [k \in DOMAIN times |->
                                        AucAt(test_event, test_time, estimate,
                                              ipcw.weights, tied_tol, times[k])]
                      IN  [status   |-> "ok",
                           scores   |-> scores,
                           mean_auc |-> MeanAuc(test_event, test_time,
                                                times, scores)]

(* ------------------------------- inputs ------------------------------- *)

\* no estimator object has been constructed
NoEstimator == [cls |-> "none", fitted |-> FALSE]

Events(n) == [1..n -> BOOLEAN]

TimeSeqs(n) == [1..n -> Times]

\* time_min: absent, or a time up to one past the last grid time
TimeMins == {None} \cup {Some(m) : m \in 1..(MaxTime + 1)}

Init ==
    /\ estimator = NoEstimator
    /\ call = [op |-> "none"]
    /\ ret = [status |-> "none"]

\* no call is in progress: the caller is free to make one
Idle == call.op = "none"

\* the caller takes the result (or the error) of the call it made
Return ==
    /\ ~Idle
    /\ call' = [op |-> "none"]
    /\ ret' = [status |-> "none"]
    /\ UNCHANGED estimator

(* --------------------- calls of the pure estimators ------------------- *)

CallComputeCounts ==
    /\ Idle
    /\ \E n \in 1..MaxN : \E event \in Events(n), time \in TimeSeqs(n) :
        /\ call' = [op |-> "_compute_counts", event |-> event, time |-> time]
        /\ ret' = [status |-> "ok"] @@ ComputeCounts(event, time)
        /\ UNCHANGED estimator

CallComputeCountsTruncated ==
    /\ Idle
    /\ \E n \in 1..MaxNTrunc :
      \E event \in Events(n), time_enter \in TimeSeqs(n), time_exit \in TimeSeqs(n) :
        /\ call' = [op |-> "_compute_counts_truncated", event |-> event,
                    time_enter |-> time_enter, time_exit |-> time_exit]
        /\ ret' = ComputeCountsTruncated(event, time_enter, time_exit)
        /\ UNCHANGED estimator

CallKaplanMeier ==
    /\ Idle
    /\ \E n \in 1..MaxN : \E event \in Events(n), time \in TimeSeqs(n) :
      \E time_min \in TimeMins :
        /\ call' = [op |-> "kaplan_meier_estimator", event |-> event,
                    time_exit |-> time, time_enter |-> None,
                    time_min |-> time_min]
        /\ ret' = KaplanMeierEstimator(event, time, None, time_min)
        /\ UNCHANGED estimator

CallKaplanMeierTruncated ==
    /\ Idle
    /\ \E n \in 1..MaxNTrunc :
      \E event \in Events(n), time_enter \in TimeSeqs(n), time_exit \in TimeSeqs(n) :
        \E time_min \in TimeMins :
          /\ call' = [op |-> "kaplan_meier_estimator", event |-> event,
                      time_exit |-> time_exit, time_enter |-> time_enter,
                      time_min |-> time_min]
          /\ ret' = KaplanMeierEstimator(event, time_exit, time_enter, time_min)
          /\ UNCHANGED estimator

CallNelsonAalen ==
    /\ Idle
    /\ \E n \in 1..MaxN : \E event \in Events(n), time \in TimeSeqs(n) :
        /\ call' = [op |-> "nelson_aalen_estimator", event |-> event,
                    time |-> time]
        /\ ret' = NelsonAalenEstimator(event, time)
        /\ UNCHANGED estimator

(* ----------------------- the estimator objects ------------------------- *)

\* query times: the grid, one below it and one above it
QueryTimes == 0..(MaxTime + 1)

EstimatorClasses == {"SurvivalFunctionEstimator", "CensoringDistributionEstimator"}

\* the constructor: __init__ stores nothing
InitEst ==
    /\ estimator \in {[cls |-> c, fitted |-> FALSE] : c \in EstimatorClasses}
    /\ call = [op |-> "none"]
    /\ ret = [status |-> "none"]

\* estimator.fit(y); a failed fit leaves the object as it was.  A second fit
\* overwrites both attributes, so it reaches no state a first fit does not:
\* each object is fitted once
CallFit ==
    /\ Idle
    /\ ~estimator.fitted
    /\ \E n \in 1..MaxNFit : \E event \in Events(n), time \in TimeSeqs(n) :
         \E fit \in {IF estimator.cls = "SurvivalFunctionEstimator"
                      THEN FitSurvival(event, time)
                      ELSE FitCensoring(event, time)} :
             /\ call' = [op |-> "fit", event |-> event, time |-> time]
             /\ ret' = [status |-> fit.status]
             /\ estimator' = IF fit.status = "ok" THEN Fitted(estimator.cls, fit) ELSE estimator

\* estimator.predict_proba(time)
CallPredictProba ==
    /\ Idle
    /\ \E time \in SeqsUpTo(QueryTimes, MaxQuery) :
         /\ call' = [op |-> "predict_proba", time |-> time]
         /\ ret' = PredictProba(estimator, time)
         /\ UNCHANGED estimator

\* estimator.predict_ipcw(y), a method of the censoring estimator only
CallPredictIpcw ==
    /\ Idle
    /\ estimator.cls = "CensoringDistributionEstimator"
    /\ \E n \in 1..MaxNIpcw : \E event \in Events(n), time \in TimeSeqs(n) :
         /\ call' = [op |-> "predict_ipcw", event |-> event, time |-> time]
         /\ ret' = PredictIpcw(estimator, event, time)
         /\ UNCHANGED estimator

NextEst ==
    \/ CallFit
    \/ CallPredictProba
    \/ CallPredictIpcw
    \/ Return

SpecEst == InitEst /\ [][NextEst]_vars

(* ------------------------------ the metrics --------------------------- *)

TimesCI == 1..MaxTimeCI

TimeSeqsCI(n) == [1..n -> TimesCI]

Estimates(n) == [1..n -> 0..MaxEst]

EstimatesCI(n) == [1..n -> 0..MaxEstCI]

TiedTols == 0..MaxTol

\* truncation times: absent, or a grid time that cuts some time off
Taus == {None} \cup {Some(t) : t \in 2..MaxTimeCI}

\* evaluation times: the grid, one below it and one above it
EvalTimes == 0..(MaxTimeCI + 1)

Neg(a) == [k \in DOMAIN a |-> 0 - a[k]]

\* the metric returns (or raises) and its local estimator object is dropped
ReturnMetric ==
    /\ ~Idle
    /\ call' = [op |-> "none"]
    /\ ret' = [status |-> "none"]
    /\ estimator' = NoEstimator

CallConcordanceIndexCensored ==
    /\ Idle
    /\ \E n \in 1..MaxNCI : \E time \in TimeSeqsCI(n) :
         \E order \in SortingOrders(time) :
           \E event \in Events(n), estimate \in EstimatesCI(n), tied_tol \in TiedTols :
             /\ call' = [op |-> "concordance_index_censored",
                         event_indicator |-> event, event_time |-> time,
                         estimate |-> estimate, tied_tol |-> tied_tol,
                         negated |-> FALSE, permutation |-> None,
                         previous |-> ret]
             /\ ret' = ConcordanceIndexCensored(event, time, estimate,
                                                tied_tol, order)
             /\ UNCHANGED estimator

\* the caller repeats the call it just made with every estimate negated
CallConcordanceIndexNegated ==
    /\ call.op = "concordance_index_censored"
    /\ ~call.negated
    /\ call.permutation = None
    /\ \E order \in SortingOrders(call.event_time) :
         /\ call' = [call EXCEPT !.estimate = Neg(call.estimate),
                                 !.negated = TRUE, !.previous = ret]
         /\ ret' = ConcordanceIndexCensored(call.event_indicator,
                       call.event_time, Neg(call.estimate), call.tied_tol, order)
         /\ UNCHANGED estimator

\* the caller repeats the call it just made with the samples reordered by
\* a permutation p, the same for the three arrays
CallConcordanceIndexPermuted ==
    /\ call.op = "concordance_index_censored"
    /\ ~call.negated
    /\ call.permutation = None
    /\ \E p \in Permutations(DOMAIN call.event_time) :
         \E event \in {Take(call.event_indicator, p)},
            time \in {Take(call.event_time, p)},
            estimate \in {Take(call.estimate, p)} :
           \E order \in SortingOrders(time) :
             /\ call' = [call EXCEPT !.event_indicator = event,
                                     !.event_time = time,
                                     !.estimate = estimate,
                                     !.permutation = Some(p),
                                     !.previous = ret]
             /\ ret' = ConcordanceIndexCensored(event, time, estimate,
                                                call.tied_tol, order)
             /\ UNCHANGED estimator

NextCI ==
    \/ CallConcordanceIndexCensored
    \/ CallConcordanceIndexNegated
    \/ CallConcordanceIndexPermuted
    \/ ReturnMetric

SpecCI == Init /\ [][NextCI]_vars

\* what cens.fit(survival_train) stores or raises, over the training sets,
\* each with whether the training set holds a censored sample
CensoringFits(max_n) ==
    UNION {{<<\E k \in 1..m : ~train_event[k],
              FitCensoring(train_event, train_time)>> :
               train_event \in Events(m), train_time \in TimeSeqsCI(m)} :
           m \in 1..max_n}

\* the local estimator object of a metric call once cens.fit has run
LocalCens(fit) ==
    IF fit.status = "ok" THEN Fitted("CensoringDistributionEstimator", fit)
    ELSE [cls |-> "CensoringDistributionEstimator", fitted |-> FALSE]

\* concordance_index_ipcw: cens is the local censoring estimator the call
\* fits on survival_train; tied_tol is left at its default, which ties
\* equal grid estimates only
CallConcordanceIndexIpcw ==
    /\ Idle
    /\ \E train \in CensoringFits(MaxNTrain), tau \in Taus :
         \E n \in 1..MaxNTest : \E time \in TimeSeqsCI(n) :
           \E order \in SortingOrders(time) :
             \E event \in Events(n), estimate \in Estimates(n) :
               /\ call' = [op |-> "concordance_index_ipcw",
                           train_censored |-> train[1],
                           test_event |-> event, test_time |-> time,
                           estimate |-> estimate, tau |-> tau, tied_tol |-> 0]
               /\ ret' = ConcordanceIndexIpcw(train[2], event, time, estimate,
                                              tau, 0, order)
               /\ estimator' = IF CheckYSurvival(event, FALSE) = "ok"
                               THEN LocalCens(train[2]) ELSE NoEstimator

NextIpcw ==
    \/ CallConcordanceIndexIpcw
    \/ ReturnMetric

SpecIpcw == Init /\ [][NextIpcw]_vars

\* the sorted arrays of at most MaxEval distinct evaluation times
EvalTimeArrays ==
    {SortSet(T) : T \in {S \in SUBSET EvalTimes : S # {} /\ Cardinality(S) <= MaxEval}}

\* cumulative_dynamic_auc: cens is the local censoring estimator the call
\* fits on survival_train; times is given sorted and without duplicates
\* (the call applies numpy.unique to it first)
CallCumulativeDynamicAuc ==
    /\ Idle
    /\ \E train \in CensoringFits(MaxNTrainAuc), times \in EvalTimeArrays,
          tied_tol \in TiedTols :
         \E n \in 1..MaxNAuc : \E estimate \in Estimates(n) :
           \E o \in SortingOrders(Neg(estimate)) :
             \E event \in Events(n), time \in TimeSeqsCI(n) :
               /\ call' = [op |-> "cumulative_dynamic_auc",
                           train_censored |-> train[1],
                           test_event |-> event, test_time |-> time,
                           estimate |-> estimate, times |-> times,
                           tied_tol |-> tied_tol]
               /\ ret' = CumulativeDynamicAuc(train[2], event, time, estimate,
                                              times, tied_tol, o)
               /\ estimator' = IF AucCheckTimes(event, time, times) = "ok"
                               THEN LocalCens(train[2]) ELSE NoEstimator

NextAuc ==
    \/ CallCumulativeDynamicAuc
    \/ ReturnMetric

SpecAuc == Init /\ [][NextAuc]_vars

NextKM ==
    \/ CallComputeCounts
    \/ CallComputeCountsTruncated
    \/ CallKaplanMeier
    \/ CallKaplanMeierTruncated
    \/ CallNelsonAalen
    \/ Return

SpecKM == Init /\ [][NextKM]_vars

(* ------------------------- risk-set tables ---------------------------- *)

Ascending(t) == \A k \in 1..(Len(t) - 1) : t[k] < t[k + 1]

\* C10: without entry times _compute_counts returns each distinct time once,
\* in strictly ascending order; the event count at t_k is the number of
\* samples with time t_k and an event, and the at-risk count is n minus the
\* number of samples with a time below t_k.
C10_CountsTable ==
    call.op = "_compute_counts" =>
        /\ Ascending(ret.times)
        /\ Range(ret.times) = Range(call.time)
        /\ Len(ret.n_events) = Len(ret.times)
        /\ Len(ret.n_at_risk) = Len(ret.times)
        /\ \A k \in DOMAIN ret.times :
              /\ ret.n_events[k] = Cardinality({i \in DOMAIN call.time :
                                       call.time[i] = ret.times[k] /\ call.event[i]})
              /\ ret.n_at_risk[k] = Len(call.time) - Cardinality(
                                       {i \in DOMAIN call.time :
                                           call.time[i] < ret.times[k]})

C10_Witness ==
    /\ call.op = "_compute_counts"
    /\ call.event = <<TRUE, FALSE, TRUE>>
    /\ call.time = <<2, 1, 2>>
    /\ ret.times = <<1, 2>>
    /\ ret.n_events = <<0, 2>>
    /\ ret.n_at_risk = <<3, 2>>

IsCountsCall ==
    /\ call.op \in {"_compute_counts", "_compute_counts_truncated"}
    /\ ret.status = "ok"

EventsWithinRisk == \A k \in DOMAIN ret.times : ret.n_events[k] <= ret.n_at_risk[k]

\* C9 as stated: in the table of either variant the at-risk counts are
\* non-increasing along the unique times and every event count is at most
\* the at-risk count.
C9_Original ==
    IsCountsCall =>
        /\ \A k \in 1..(Len(ret.times) - 1) : ret.n_at_risk[k + 1] <= ret.n_at_risk[k]
        /\ EventsWithinRisk

\* C9 amended: every event count is at most the at-risk count in both
\* variants; the at-risk counts are non-increasing without entry times, and
\* with entry times they rise from one unique time to the next only when a
\* sample enters at the later time.
C9_AtRisk ==
    IsCountsCall =>
        /\ EventsWithinRisk
        /\ \A k \in 1..(Len(ret.times) - 1) :
              ret.n_at_risk[k + 1] > ret.n_at_risk[k] =>
                  /\ call.op = "_compute_counts_truncated"
                  /\ \E i \in DOMAIN call.time_enter :
                        call.time_enter[i] = ret.times[k + 1]

C9_Witness ==
    /\ call.op = "_compute_counts_truncated"
    /\ call.time_enter = <<1, 2>>
    /\ call.time_exit = <<3, 3>>
    /\ ret.status = "ok"
    /\ ret.n_at_risk = <<1, 2, 2>>

\* C8: with entry times the event count reported at every unique time t,
\* the smallest included, is the number of samples whose exit time is t and
\* whose event indicator is true.
C8_EventCounts ==
    (call.op = "_compute_counts_truncated" /\ ret.status = "ok") =>
        \A k \in DOMAIN ret.times :
            ret.n_events[k] = Cardinality({i \in DOMAIN call.event :
                                  call.time_exit[i] = ret.times[k] /\ call.event[i]})

(* -------------------------- Kaplan-Meier curve ------------------------ *)

\* the risk-set table of the data of a kaplan_meier_estimator call
TableOfCall ==
    IF call.time_enter = None
    THEN ComputeCounts(call.event, call.time_exit)
    ELSE ComputeCountsTruncated(call.event, call.time_enter, call.time_exit)

\* the product of 1 - events_j / at_risk_j over the rows J of table T
RECURSIVE ProdFactors(_, _)
ProdFactors(T, J) ==
    IF J = {} THEN F(1)
    ELSE LET j == CHOOSE x \in J : TRUE
         IN  FMul(FSub(F(1), FDiv(F(T.n_events[j]), F(T.n_at_risk[j]))),
                  ProdFactors(T, J \ {j}))

IsKMCallWithMin ==
    /\ call.op = "kaplan_meier_estimator"
    /\ call.time_min # None
    /\ ret.status = "ok"

\* C1 as stated: with time_min = m the call returns the unique times >= m
\* and at each of them the value the call without time_min returns there
\* (the product over all unique times <= t, those below m included).
C1_Original ==
    IsKMCallWithMin =>
        LET T == TableOfCall
            m == call.time_min[1]
        IN  /\ ret.time = SortSet({t \in Range(T.times) : t >= m})
            /\ Len(ret.prob) = Len(ret.time)
            /\ \A k \in DOMAIN ret.time :
                  ret.prob[k] = ProdFactors(T, {j \in DOMAIN T.times :
                                                   T.times[j] <= ret.time[k]})

\* C1 amended: with time_min = m the call returns the unique times >= m and
\* at each of them the product of 1 - events_k / at_risk_k over the unique
\* times in [m, t] only: the curve restarts from 1 at time_min.
C1_Restarted ==
    IsKMCallWithMin =>
        LET T == TableOfCall
            m == call.time_min[1]
        IN  /\ ret.time = SortSet({t \in Range(T.times) : t >= m})
            /\ Len(ret.prob) = Len(ret.time)
            /\ \A k \in DOMAIN ret.time :
                  ret.prob[k] = ProdFactors(T, {j \in DOMAIN T.times :
                                                   /\ m <= T.times[j]
                                                   /\ T.times[j] <= ret.time[k]})

C1_Witness ==
    /\ IsKMCallWithMin
    /\ call.event = <<TRUE, TRUE, TRUE>>
    /\ call.time_exit = <<1, 2, 3>>
    /\ call.time_enter = None
    /\ call.time_min = Some(2)
    /\ ret.time = <<2, 3>>
    /\ ret.prob = <<Rat(1, 2), F(0)>>

\* C2: the Kaplan-Meier values (with or without entry times) lie in [0, 1]
\* and never increase along the unique times; the Nelson-Aalen values are
\* non-negative and never decrease.
C2_Monotone ==
    /\ (call.op = "kaplan_meier_estimator" /\ ret.status = "ok") =>
          \A k \in DOMAIN ret.prob :
              /\ FLe(F(0), ret.prob[k])
              /\ FLe(ret.prob[k], F(1))
              /\ k > 1 => FLe(ret.prob[k], ret.prob[k - 1])
    /\ (call.op = "nelson_aalen_estimator" /\ ret.status = "ok") =>
          \A k \in DOMAIN ret.cum_hazard :
              /\ FLe(F(0), ret.cum_hazard[k])
              /\ k > 1 => FLe(ret.cum_hazard[k - 1], ret.cum_hazard[k])

C2_Witness ==
    /\ call.op = "kaplan_meier_estimator"
    /\ call.time_enter # None
    /\ ret.status = "ok"
    /\ Len(ret.prob) = 3
    /\ FLt(ret.prob[2], ret.prob[1])
    /\ FLt(ret.prob[3], ret.prob[2])
    /\ ret.prob[3] = F(0)

(* ------------------------- fitted step functions ---------------------- *)

\* the stored times that are observed times (the sentinel left out)
ObservedStored == {j \in DOMAIN estimator.unique_time_ : IsFinite(estimator.unique_time_[j])}

\* the positions of the stored times <= t
StoredUpTo(t) == {j \in DOMAIN estimator.unique_time_ : FLe(estimator.unique_time_[j], F(t))}

LastStoredUpTo(t) == CHOOSE j \in StoredUpTo(t) : \A i \in StoredUpTo(t) : i <= j

InRange(t) == FLe(F(t), estimator.unique_time_[Len(estimator.unique_time_)])

\* C6: on a fitted estimator of either class, for a query time t not above
\* the last stored time predict_proba returns the value stored at the
\* greatest stored time <= t, and 1.0, without failing, for t below the
\* first observed time.
C6_StepLookup ==
    (call.op = "predict_proba" /\ estimator.fitted) =>
        /\ (\A k \in DOMAIN call.time : InRange(call.time[k])) => ret.status = "ok"
        /\ ret.status = "ok" =>
              \A k \in DOMAIN call.time :
                  LET t == call.time[k]
                  IN  /\ (InRange(t) /\ StoredUpTo(t) # {}) =>
                             ret.prob[k] = estimator.prob_[LastStoredUpTo(t)]
                      /\ (\A j \in ObservedStored : FLt(F(t), estimator.unique_time_[j])) =>
                             ret.prob[k] = F(1)

\* a censoring estimator fitted without censoring, queried below, at and
\* between its stored times
C6_Witness ==
    /\ call.op = "predict_proba"
    /\ estimator.fitted
    /\ estimator.cls = "CensoringDistributionEstimator"
    /\ estimator.unique_time_ = <<F(1), F(3)>>
    /\ call.time = <<0, 2>>
    /\ ret.status = "ok"
    /\ ret.prob = <<F(1), F(1)>>

\* C7: after fit completes, for both classes the stored step function
\* starts with the sentinel (-inf, 1.0) followed by the estimated points in
\* ascending time order: both stored sequences have one more entry than
\* there are unique observed times.
C7_Sentinel ==
    (call.op = "fit" /\ ret.status = "ok") =>
        /\ estimator.fitted
        /\ estimator.unique_time_[1] = NegInf
        /\ estimator.prob_[1] = F(1)
        /\ Len(estimator.unique_time_) = Cardinality(Range(call.time)) + 1
        /\ Len(estimator.prob_) = Len(estimator.unique_time_)
        /\ \A k \in 1..(Len(estimator.unique_time_) - 1) :
              FLt(estimator.unique_time_[k], estimator.unique_time_[k + 1])

(* ---------------------------- the metrics ----------------------------- *)

\* no pair of estimates of the call lies within tied_tol
NoTiedEstimates ==
    \A i, j \in DOMAIN call.estimate :
        i # j => Abs(call.estimate[i] - call.estimate[j]) > call.tied_tol

\* C3: for every valid input of concordance_index_censored in which no two
\* estimates are within tied_tol, the call with every estimate negated
\* returns an index equal to 1 minus the index of the original call.
C3_NegatedComplement ==
    (/\ call.op = "concordance_index_censored"
     /\ call.negated
     /\ CheckInputs(call.event_indicator, call.event_time, call.estimate) = "ok"
     /\ NoTiedEstimates) =>
        /\ call.previous.status = "ok"
        /\ ret.status = "ok"
        /\ FEq(ret.cindex, FSub(F(1), call.previous.cindex))

\* neither the training set nor the test set of the call holds a censored
\* sample, and tau is None
NoCensoringCall ==
    /\ call.op = "concordance_index_ipcw"
    /\ ~call.train_censored
    /\ \A k \in DOMAIN call.test_event : call.test_event[k]
    /\ call.tau = None

\* ret is what concordance_index_censored gives on the test set of the
\* call, whichever sorting order argsort returns; where that call raises,
\* ret is an error as well
SameAsCensored ==
    \A order \in SortingOrders(call.test_time) :
        LET c == ConcordanceIndexCensored(call.test_event, call.test_time,
                                          call.estimate, call.tied_tol, order)
        IN  IF c.status = "ok" THEN ret = c ELSE ret.status # "ok"

\* C4 as stated: for every training set and test set without a censored
\* sample and every estimate, concordance_index_ipcw with tau = None
\* returns the result of concordance_index_censored on the test set.
C4_Original == NoCensoringCall => SameAsCensored

\* C4: for a training set and a test set without a censored sample, tau =
\* None and no test time above the largest training time,
\* concordance_index_ipcw returns the result of concordance_index_censored
\* on the test set; with two or more test samples that is a result, not an
\* error.
C4_Reduces ==
    (/\ NoCensoringCall
     /\ \A k \in DOMAIN call.test_time : InRange(call.test_time[k])) =>
        /\ SameAsCensored
        /\ Len(call.test_time) >= 2 => ret.status = "ok"

\* a test time equal to the largest training time, one below the smallest,
\* and a concordant pair
C4_Witness ==
    /\ NoCensoringCall
    /\ estimator.unique_time_ = <<F(2)>>
    /\ call.test_time = <<2, 1>>
    /\ call.estimate = <<0, 1>>
    /\ ret.status = "ok"
    /\ ret.cindex = F(1)
    /\ ret.concordant = 1

\* the evaluation times of the call at which no test sample is a case, or
\* none is a control
ZeroDenominatorTimes ==
    {t \in Range(call.times) :
        \/ ~\E i \in DOMAIN call.test_time :
                call.test_time[i] <= t /\ call.test_event[i]
        \/ ~\E i \in DOMAIN call.test_time : call.test_time[i] > t}

\* C5: cumulative_dynamic_auc fails with an InvalidInput error whenever at
\* some evaluation time there are no cases or no controls; it never returns
\* an AUC computed from a zero denominator.
C5_ZeroDenominatorRaises ==
    call.op = "cumulative_dynamic_auc" =>
        /\ ZeroDenominatorTimes # {} => ret.status = "ValueError"
        /\ ret.status = "ok" =>
              \A k \in DOMAIN ret.scores : ~IsNaN(ret.scores[k])

(* ---------------------- comparable pairs of a call -------------------- *)

\* the ordered pairs <<i, j>> of samples of the call in which i is an event
\* and j has a strictly later time or is censored at the time of i
ComparablePairs ==
    {pr \in (DOMAIN call.event_time) \X (DOMAIN call.event_time) :
        /\ call.event_indicator[pr[1]]
        /\ \/ call.event_time[pr[2]] > call.event_time[pr[1]]
           \/ /\ call.event_time[pr[2]] = call.event_time[pr[1]]
              /\ ~call.event_indicator[pr[2]]}

TiedRiskPairs ==
    {pr \in ComparablePairs :
        Abs(call.estimate[pr[1]] - call.estimate[pr[2]]) <= call.tied_tol}

ConcordantPairs ==
    {pr \in ComparablePairs \ TiedRiskPairs :
        call.estimate[pr[2]] < call.estimate[pr[1]]}

TiedTimePairs ==
    {pr \in ComparablePairs : call.event_time[pr[1]] = call.event_time[pr[2]]}

\* the call is a concordance_index_censored call whose input passes
\* _check_inputs
IsValidCICall ==
    /\ call.op = "concordance_index_censored"
    /\ CheckInputs(call.event_indicator, call.event_time, call.estimate) = "ok"

\* the four counts concordance_index_censored returned are those of the
\* comparable pairs, and the index is (concordant + tied_risk / 2) over
\* their number
CountsOfPairs ==
    /\ ret.tied_risk = Cardinality(TiedRiskPairs)
    /\ ret.concordant = Cardinality(ConcordantPairs)
    /\ ret.discordant = Cardinality(ComparablePairs)
                            - Cardinality(TiedRiskPairs) - Cardinality(ConcordantPairs)
    /\ ret.tied_time = Cardinality(TiedTimePairs)
    /\ ret.cindex = FDiv(Rat(2 * ret.concordant + ret.tied_risk, 2),
                         F(Cardinality(ComparablePairs)))

\* C11: for every valid input of concordance_index_censored the call
\* returns the counts of the comparable pairs (i an event, j strictly later
\* or censored at the same time): tied_risk the pairs within tied_tol,
\* concordant the others with r_j < r_i, discordant the rest, tied_time the
\* pairs with equal times, and the index (concordant + 0.5 * tied_risk)
\* over the number of comparable pairs.
C11_PairCounts == IsValidCICall => (ret.status = "ok" /\ CountsOfPairs)

(* ------------------------ the AUC of a call --------------------------- *)

\* the IPCW weights of the test samples of the call, from the censoring
\* estimator the call fitted
TestWeights == PredictIpcw(estimator, call.test_event, call.test_time).weights

ControlsAt(t) == {j \in DOMAIN call.test_time : call.test_time[j] > t}

CasesAt(t) == {i \in DOMAIN call.test_time : call.test_time[i] <= t}

\* the sum over the pairs (i, j) with y_i <= t < y_j of w_i times tie2 / 2
\* for a pair of equal estimates, w_i for a pair with f_j < f_i
PairSum(t, tie2) ==
    SumF([i \in DOMAIN call.test_time |->
            IF i \in CasesAt(t)
            THEN FMul(TestWeights[i],
                      Rat(2 * Cardinality({j \in ControlsAt(t) :
                                  call.estimate[j] < call.estimate[i]})
                          + tie2 * Cardinality({j \in ControlsAt(t) :
                                  call.estimate[j] = call.estimate[i]}), 2))
            ELSE F(0)])

\* the number of controls times the total case weight
PairNorm(t) ==
    FMul(F(Cardinality(ControlsAt(t))),
         SumF([i \in DOMAIN call.test_time |->
                 IF i \in CasesAt(t) THEN TestWeights[i] ELSE F(0)]))

IsAucResult == call.op = "cumulative_dynamic_auc" /\ ret.status = "ok"

\* tied_tol ties equal estimates only
TolTiesEqualOnly ==
    \A i, j \in DOMAIN call.estimate :
        Abs(call.estimate[i] - call.estimate[j]) <= call.tied_tol
            => call.estimate[i] = call.estimate[j]

TimesOutOfRange ==
    \E k \in DOMAIN call.times :
        \/ \A i \in DOMAIN call.test_time : call.times[k] >= call.test_time[i]
        \/ \A i \in DOMAIN call.test_time : call.times[k] < call.test_time[i]

\* C13: cumulative_dynamic_auc fails with an InvalidInput error, before it
\* fits the censoring estimator or computes any AUC, whenever an evaluation
\* time is >= the largest test time or < the smallest; evaluation times in
\* [min(test_time), max(test_time)) never trigger this failure: the call goes
\* on to fit the censoring estimator, and returns a result when the fit and
\* the IPCW weights succeed.
C13_RangeCheck ==
    call.op = "cumulative_dynamic_auc" =>
        /\ TimesOutOfRange => (ret.status = "ValueError" /\ estimator = NoEstimator)
        /\ (~TimesOutOfRange /\ \E i \in DOMAIN call.test_event : call.test_event[i]) =>
              /\ estimator.cls = "CensoringDistributionEstimator"
              /\ (/\ estimator.fitted
                  /\ PredictIpcw(estimator, call.test_event, call.test_time).status = "ok")
                     => ret.status = "ok"

\* an evaluation time equal to the largest test time, with the other one
\* in range
C13_Witness ==
    /\ call.op = "cumulative_dynamic_auc"
    /\ call.test_event = <<TRUE, TRUE>>
    /\ call.test_time = <<1, 2>>
    /\ call.times = <<1, 2>>
    /\ ret.status = "ValueError"
    /\ estimator = NoEstimator

(* --------------------------- IPCW weights ----------------------------- *)

\* the fitted probability at time t: the value stored at the greatest
\* stored time <= t, and 1 below every stored time
ProbAt(t) ==
    IF StoredUpTo(t) = {} THEN F(1) ELSE estimator.prob_[LastStoredUpTo(t)]

\* C14: on a fitted censoring estimator predict_ipcw fails with an error
\* and returns no weights whenever the fitted probability at the time of
\* some event sample of its argument is exactly zero; when it does not
\* fail, every censored sample gets weight 0 and every event sample 1 over
\* the fitted probability at its own time.
C14_Ipcw ==
    (call.op = "predict_ipcw" /\ estimator.fitted) =>
        /\ (\E k \in DOMAIN call.event :
                call.event[k] /\ ProbAt(call.time[k]) = F(0))
              => ret.status = "ValueError"
        /\ ret.status = "ok" =>
              \A k \in DOMAIN call.event :
                  ret.weights[k] = IF call.event[k]
                                   THEN FDiv(F(1), ProbAt(call.time[k]))
                                   ELSE F(0)

\* an event sample where the fitted probability is 1/2, and a censored one
C14_Witness ==
    /\ call.op = "predict_ipcw"
    /\ estimator.fitted
    /\ estimator.prob_ = <<F(1), Rat(1, 2), Rat(1, 2)>>
    /\ call.event = <<TRUE, FALSE>>
    /\ call.time = <<1, 2>>
    /\ ret.status = "ok"
    /\ ret.weights = <<F(2), F(0)>>

(* ------------------- the concordance index is defined ----------------- *)

\* C15: for every input that passes the checks of
\* concordance_index_censored (at least 2 samples, at least one event) the
\* call completes and returns an index that is a defined number in [0, 1],
\* also when no event sample has a comparable partner.
C15_IndexDefined ==
    IsValidCICall =>
        /\ ret.status = "ok"
        /\ FLe(F(0), ret.cindex)
        /\ FLe(ret.cindex, F(1))

(* ----------------------- reordering the samples ----------------------- *)

\* C16: for every valid input and every permutation applied jointly to
\* event_indicator, event_time and estimate, concordance_index_censored
\* gives what it gave for the original arrays (the same index and four
\* counts, or no result where the original call gave none), wherever the
\* time sort of either call places the samples that have equal times.
C16_PermutationInvariant ==
    (IsValidCICall /\ call.permutation # None) => ret = call.previous

\* three samples, two of them tied in time, reordered so that the tied
\* ones change places
C16_Witness ==
    /\ IsValidCICall
    /\ call.permutation = Some(<<2, 1, 3>>)
    /\ call.event_indicator = <<FALSE, TRUE, TRUE>>
    /\ call.event_time = <<1, 1, 2>>
    /\ call.estimate = <<0, 2, 1>>
    /\ call.tied_tol = 0
    /\ ret.status = "ok"
    /\ ret.cindex = F(1)
    /\ ret.tied_time = 1
    /\ ret = call.previous

====
